---- MODULE Spec2Model ----
(***************************************************************************)
(* Model of the lossless_player repository: the music library indexer and  *)
(* its JSON cache (src/src/music_library.py, src/src/config.py) and the    *)
(* VLC player with its monitor thread (src/src/player.py).                 *)
(***************************************************************************)
EXTENDS Integers, Sequences, FiniteSets, TLC

(***************************************************************************)
(* Bounds of the model.                                                    *)
(***************************************************************************)
\* Number of files that may exist under MOUNT_POINT.
NumFiles == 4
\* Number of distinct per-process string-hash seeds (PYTHONHASHSEED).
NumSeeds == 2
\* Number of whole days the wall clock may advance.
MaxDays == 1
\* Number of albums the controller may load into the player.
NumAlbums == 2

\* Number of tagged tracks in a Library that is queried.
MaxTracks == 3

(***************************************************************************)
(* Program constants.                                                      *)
(***************************************************************************)
\* music_library.py:58, the freshness window in seconds.
DAY == 86400

\* The wall clock is counted in half seconds, so that int(time.time())
\* (music_library.py:90) really truncates.
DayTicks == 2 * DAY
ClockStart == 4 * DayTicks
ClockEnd == ClockStart + MaxDays * DayTicks

VARIABLES
    tree,          \* files present under MOUNT_POINT (file numbers)
    hashseed,      \* this process's string-hash seed
    clock,         \* time.time(), in half seconds
    cacheFile,     \* contents of LIBRARY_CACHE on disk
    alive,         \* FALSE when MusicLibrary() raised out of __init__
    library,       \* MusicLibrary.library: ordered dict id -> track
    albums,        \* MusicLibrary.albums: ordered dict key -> album
    artists,       \* MusicLibrary.artists: ordered dict key -> artist
    indexed_time,  \* MusicLibrary.indexed_time
    ix,            \* activations of index_library, one per calling thread
    lpc,           \* position of the event loop inside a library call
    lret,          \* outcome of the event loop's last library call
    idHist         \* history: ids ever given to each path, over all runs

libVars == <<tree, hashseed, clock, cacheFile, alive, library, albums,
             artists, indexed_time, ix, lpc, lret, idHist>>

VARIABLES
    state,                \* Player.state
    current_album,        \* Player.current_album (0: None)
    current_track_index,  \* Player.current_track_index
    current_playlist,     \* Player.current_playlist
    monitor_running,      \* Player.monitor_running
    status_callback,      \* Player.status_callback is set
    vlc,                  \* what the list player is doing
    pending,              \* a MediaPlayerEndReached event awaits delivery
    ctl,                  \* the controller's thread inside a Player method
    mon,                  \* the monitor thread and its locals
    ev,                   \* VLC's event thread inside _on_media_end
    emitted,              \* the status passed to a running status_callback
    resumeIdx             \* history: the index at a successful pause() not yet
                          \* followed by another command, as a set; else {}

playerVars == <<state, current_album, current_track_index, current_playlist,
                monitor_running, status_callback, vlc, pending, ctl, mon, ev,
                emitted, resumeIdx>>

VARIABLES
    volume,               \* the backend's volume, player.audio_get_volume()
    status                \* what get_status is building or has returned

apiVars == <<volume, status>>

vars == <<libVars, playerVars, apiVars>>

(***************************************************************************)
(* The files of the share.  A file is known by its number; the walk of     *)
(* os.walk visits present files in ascending number.                       *)
(***************************************************************************)
Paths == 1 .. NumFiles
Seeds == 0 .. (NumSeeds - 1)

\* file_path.replace(str(MOUNT_POINT), '').split(os.sep): the first part is
\* the empty string before the leading separator.
FileParts(n) ==
    CASE n = 1 -> <<"", "Artist", "AlbumX", "01.flac">>
      [] n = 2 -> <<"", "Artist", "AlbumX", "bad.flac">>
      [] n = 3 -> <<"", "Artist", "AlbumX", "02.flac">>
      [] n = 4 -> <<"", "AlbumY", "song.mp3">>
      [] n = 5 -> <<"", "Artist", "AlbumX", "cover.flac">>
      [] OTHER -> <<"", "._junk.flac">>

\* What MutagenFile(file_path) does with the file: it returns an audio
\* object ("ok"), returns None ("none") or raises ("raise").
FileExtract(n) ==
    CASE n = 2 -> "raise"
      [] n = 5 -> "none"
      [] OTHER -> "ok"

\* The type of the audio object.
FileKind(n) ==
    CASE n \in {1, 2, 3, 5} -> "flac"
      [] n = 4 -> "mp3"
      [] OTHER -> "generic"

\* The tags of the file; "" and <<>> stand for a tag that is absent, and
\* <<a, b>> for the tracknumber tag "a/b".
FileTags(n) ==
    CASE n = 1 -> [album |-> "", artist |-> "", title |-> "Song",
                   tracknumber |-> <<2, 2>>]
      [] n = 3 -> [album |-> "", artist |-> "", title |-> "Song2",
                   tracknumber |-> <<1, 2>>]
      [] n = 4 -> [album |-> "", artist |-> "Other", title |-> "",
                   tracknumber |-> <<>>]
      [] OTHER -> [album |-> "", artist |-> "", title |-> "",
                   tracknumber |-> <<>>]

\* file.startswith('._') (line 76)
FileIsMacMeta(n) == n > 5

\* filename.startswith('.') (line 102)
FileIsDot(n) == n > 5

\* file.lower().endswith(supported_extensions)
FileSupported(n) == TRUE

\* str.lower() on the strings of the model.
Lower(s) ==
    CASE s = "Artist" -> "artist"
      [] s = "AlbumX" -> "albumx"
      [] s = "AlbumY" -> "albumy"
      [] s = "Other" -> "other"
      [] s = "AB" -> "ab"
      [] s = "Zed" -> "zed"
      [] OTHER -> s

\* hash(file_path): injective within one process, seeded per process.
PyHash(seed, n) == seed * 100 + n

(***************************************************************************)
(* Ordered dicts as sequences of entries [k, v].                           *)
(***************************************************************************)
DictKeys(d) == {d[i].k : i \in 1 .. Len(d)}

DictHas(d, key) == key \in DictKeys(d)

DictIndex(d, key) == CHOOSE i \in 1 .. Len(d) : d[i].k = key

DictGet(d, key) == d[DictIndex(d, key)].v

DictPut(d, key, val) ==
    IF DictHas(d, key)
    THEN [d EXCEPT ![DictIndex(d, key)] = [k |-> key, v |-> val]]
    ELSE Append(d, [k |-> key, v |-> val])

(***************************************************************************)
(* MusicLibrary._process_audio_file                                        *)
(***************************************************************************)
\* int(tag.split('/')[0]); track_number stays 0 without the tag.
ParseTrackNumber(tag) == IF tag = <<>> THEN 0 ELSE tag[1]

\* Lines 111-162: the fields taken from the tags, by file type.
TaggedInfo(n) ==
    LET tags == FileTags(n) IN
    IF FileKind(n) \in {"flac", "mp3"}
    THEN [path |-> n, album |-> tags.album, artist |-> tags.artist,
          title |-> tags.title,
          track_number |-> ParseTrackNumber(tags.tracknumber)]
    ELSE [path |-> n, album |-> "", artist |-> "",
          title |-> FileParts(n)[Len(FileParts(n))], track_number |-> 0]

\* Lines 164-171: album and artist from the directory names.
PathFallback(info) ==
    LET parts == FileParts(info.path) IN
    IF (info.album = "" \/ info.artist = "") /\ Len(parts) >= 3
    THEN [info EXCEPT
            !.artist = IF info.artist = "" THEN parts[Len(parts) - 2] ELSE @,
            !.album = IF info.album = "" THEN parts[Len(parts) - 1] ELSE @]
    ELSE info

TrackInfo(n) == PathFallback(TaggedInfo(n))

\* Lines 173-175: track_id = str(hash(file_path)).
TrackId(seed, n) == PyHash(seed, n)

(***************************************************************************)
(* MusicLibrary._organize_library                                          *)
(***************************************************************************)
AlbumKey(track) == <<Lower(track.artist), Lower(track.album)>>

ArtistKey(track) == Lower(track.artist)

\* list.sort(key=track_number) is stable: insertion of x after every
\* element that is not greater.
RECURSIVE InsertById(_, _, _)
InsertById(sorted, id, lib) ==
    IF sorted = <<>> THEN <<id>>
    ELSE IF DictGet(lib, Head(sorted)).track_number
              <= DictGet(lib, id).track_number
         THEN <<Head(sorted)>> \o InsertById(Tail(sorted), id, lib)
         ELSE <<id>> \o sorted

RECURSIVE SortIds(_, _)
SortIds(ids, lib) ==
    IF ids = <<>> THEN <<>>
    ELSE InsertById(SortIds(SubSeq(ids, 1, Len(ids) - 1), lib),
                    ids[Len(ids)], lib)

\* Lines 183-207 for one track.
OrganizeOne(id, track, org) ==
    LET akey == AlbumKey(track)
        albs0 == IF DictHas(org.albums, akey) THEN org.albums
                 ELSE DictPut(org.albums, akey,
                        [name |-> track.album, artist |-> track.artist,
                         tracks |-> <<>>, track_count |-> 0])
        alb == DictGet(albs0, akey)
        albs1 == DictPut(albs0, akey,
                    [alb EXCEPT !.tracks = Append(@, id),
                                !.track_count = @ + 1])
        rkey == ArtistKey(track)
        arts0 == IF DictHas(org.artists, rkey) THEN org.artists
                 ELSE DictPut(org.artists, rkey,
                        [name |-> track.artist,
                         albums |-> [py |-> "set", items |-> {}],
                         tracks |-> <<>>])
        art == DictGet(arts0, rkey)
        arts1 == DictPut(arts0, rkey,
                    [art EXCEPT !.albums.items = @ \cup {akey},
                                !.tracks = Append(@, id)])
    IN [albums |-> albs1, artists |-> arts1]

RECURSIVE OrganizeFrom(_, _, _)
OrganizeFrom(lib, i, org) ==
    IF i > Len(lib) THEN org
    ELSE OrganizeFrom(lib, i + 1, OrganizeOne(lib[i].k, lib[i].v, org))

\* Lines 209-211.
SortAlbums(albs, lib) ==
    [i \in 1 .. Len(albs) |->
        [k |-> albs[i].k,
         v |-> [albs[i].v EXCEPT !.tracks = SortIds(@, lib)]]]

OrganizeLibrary(lib, albs, arts) ==
    LET org == OrganizeFrom(lib, 1, [albums |-> albs, artists |-> arts])
    IN [albums |-> SortAlbums(org.albums, lib), artists |-> org.artists]

(***************************************************************************)
(* The cache file and MusicLibraryCache                                    *)
(***************************************************************************)
EmptySnap == [tracks |-> <<>>, albums |-> <<>>, artists |-> <<>>,
              indexed_time |-> 0]

Snap(lib, albs, arts, t) ==
    [tracks |-> lib, albums |-> albs, artists |-> arts, indexed_time |-> t]

\* A file is absent, holds text that is no JSON document (also a truncated
\* document), or holds a JSON value: an object or an array of n members; an
\* object is shaped when it has the cache's four members.
FileAbsent == [kind |-> "absent", t |-> "", n |-> 0, shaped |-> FALSE,
               snap |-> EmptySnap]

FileMalformed == [kind |-> "malformed", t |-> "", n |-> 0, shaped |-> FALSE,
                  snap |-> EmptySnap]

FileJson(t, n, shaped, snap) ==
    [kind |-> "json", t |-> t, n |-> n, shaped |-> shaped, snap |-> snap]

\* json.dump raises TypeError on a Python set.
JsonSerializable(snap) ==
    \A i \in 1 .. Len(snap.artists) : snap.artists[i].v.albums.py # "set"

\* MusicLibraryCache.save: open(LIBRARY_CACHE, 'w') truncates the file, and
\* json.dump(indent=2) writes chunk by chunk until it raises; every
\* exception is logged and swallowed.  opened = FALSE: open() itself failed.
CacheSave(file, snap, opened) ==
    IF ~opened THEN file
    ELSE IF JsonSerializable(snap) THEN FileJson("object", 4, TRUE, snap)
    ELSE FileMalformed

\* MusicLibraryCache.load: what it returns, or the exception it lets through.
\* Only json.JSONDecodeError is caught.
CacheLoad(file) ==
    IF file.kind = "absent"
    THEN [t |-> "object", n |-> 0, shaped |-> FALSE, snap |-> EmptySnap]
    ELSE IF file.kind = "malformed"
    THEN [t |-> "object", n |-> 0, shaped |-> FALSE, snap |-> EmptySnap]
    ELSE [t |-> file.t, n |-> file.n, shaped |-> file.shaped,
          snap |-> file.snap]

\* MusicLibrary.__init__ followed by load_cache: the fields of the new
\* object, and whether an exception left the constructor.  A non-empty
\* value is truthy; list.get does not exist (AttributeError).
Construct(file) ==
    LET data == CacheLoad(file) IN
    IF data.n = 0 THEN [raised |-> FALSE, snap |-> EmptySnap]
    ELSE IF data.t # "object" THEN [raised |-> TRUE, snap |-> EmptySnap]
    ELSE IF data.shaped THEN [raised |-> FALSE, snap |-> data.snap]
    ELSE [raised |-> FALSE, snap |-> EmptySnap]

(***************************************************************************)
(* Initial state: the process has started and MusicLibrary() has run on    *)
(* whatever the cache file held.                                           *)
(***************************************************************************)
\* A well-formed cache of the documented shape: file 1 indexed under seed 0,
\* with the artist's albums as a JSON array.
ListArtists(arts) ==
    [i \in 1 .. Len(arts) |->
        [k |-> arts[i].k,
         v |-> [arts[i].v EXCEPT !.albums.py = "list"]]]

StoredSnap ==
    LET lib == <<[k |-> TrackId(0, 1), v |-> TrackInfo(1)]>>
        org == OrganizeLibrary(lib, <<>>, <<>>)
    IN Snap(lib, org.albums, ListArtists(org.artists), ClockStart \div 2 - 1)

InitialFiles ==
    { FileAbsent,
      FileMalformed,
      FileJson("object", 0, FALSE, EmptySnap),
      FileJson("object", 1, FALSE, EmptySnap),
      FileJson("array", 0, FALSE, EmptySnap),
      FileJson("array", 1, FALSE, EmptySnap),
      FileJson("object", 4, TRUE, StoredSnap) }

(***************************************************************************)
(* The player: its inputs and its state after Player.__init__.             *)
(***************************************************************************)
Albums == 1 .. NumAlbums

\* The number of tracks of the albums the controller loads; it never loads
\* an empty list (telegram_bot.py:229 and 292).
AlbumLen(a) ==
    CASE a = 1 -> 3
      [] a = 2 -> 1
      [] OTHER -> 2

\* The tracks handed to load_playlist with album a.
AlbumTracks(a) == [i \in 1 .. AlbumLen(a) |-> 10 * a + i]

\* player.get_position(), in hundredths of the track's length.
Positions == {0, 5, 11}

NoStatus == [state |-> "", album |-> 0, track |-> 0, position |-> -100]

IdleCtl == [pc |-> "idle", op |-> "", ret |-> FALSE, arg |-> 0, tmp |-> 0]

\* Before the thread exists: monitor_thread is None.
NoMonitor == [pc |-> "none", last_track_index |-> -1, last_position |-> -100,
              position |-> -100, current_track |-> -1, track_info |-> 0]

IdleEv == [pc |-> "idle", tmp |-> 0]

\* PLAYER_VOLUME when the environment does not set it.
PLAYER_VOLUME == 70

\* Volumes asked for, by /volume or by the environment's PLAYER_VOLUME.
VolumeInputs == {-5, -1, 0, 42, 100, 101, 150}

Min(a, b) == IF a < b THEN a ELSE b

Max(a, b) == IF a > b THEN a ELSE b

\* A clamp that bounds the volume from above only.
ClampAbove(v) == Min(100, v)

\* player.py:186.
Clamp(v) == Max(0, Min(100, v))

\* No get_status call is under way.
NoResult == [kind |-> "none", state |-> "", album |-> 0, volume |-> 0,
             has_track |-> FALSE, track |-> 0, position |-> 0,
             queried |-> FALSE, track_index |-> 0]

\* player.py:29 with the default PLAYER_VOLUME.
ApiStart == volume = Clamp(PLAYER_VOLUME) /\ status = NoResult

\* player.py:31-46.
PlayerStart ==
    /\ state = "STOPPED"
    /\ current_album = 0
    /\ current_track_index = -1
    /\ current_playlist = <<>>
    /\ monitor_running = FALSE
    /\ status_callback = FALSE
    /\ vlc = "stopped"
    /\ pending = FALSE
    /\ ctl = IdleCtl
    /\ mon = NoMonitor
    /\ ev = IdleEv
    /\ emitted = NoStatus
    /\ resumeIdx = {}

IdleIx == [pc |-> "idle", force |-> FALSE, todo |-> <<>>, result |-> FALSE,
           mounted |-> FALSE, opened |-> FALSE, fresh |-> FALSE,
           pre |-> EmptySnap]

NoRet == [op |-> "none", kind |-> "none", key |-> <<>>]

LibInit ==
    /\ tree \in {1 .. k : k \in 0 .. NumFiles}
    /\ hashseed = 0
    /\ clock = ClockStart
    /\ cacheFile \in InitialFiles
    /\ alive = ~Construct(cacheFile).raised
    /\ library = Construct(cacheFile).snap.tracks
    /\ albums = Construct(cacheFile).snap.albums
    /\ artists = Construct(cacheFile).snap.artists
    /\ indexed_time = Construct(cacheFile).snap.indexed_time
    /\ ix = [c \in {"loop", "exec"} |-> IdleIx]
    /\ lpc = "idle"
    /\ lret = NoRet
    /\ idHist = [p \in Paths |-> {}]
    /\ PlayerStart
    /\ ApiStart

(***************************************************************************)
(* MusicLibrary.index_library, in the steps at which another thread can    *)
(* observe it.  c names the calling thread: "loop" is the asyncio event    *)
(* loop, "exec" the executor thread of cmd_rescan.                         *)
(***************************************************************************)
\* A freshness window of one hour instead of 24.
IsFreshOneHour == 2 * indexed_time > clock - 2 * 3600

\* Line 58: self.indexed_time > time.time() - 86400
IsFresh == 2 * indexed_time > clock - DayTicks

\* os.walk(MOUNT_POINT): the present files, in ascending number.
WalkOrder(files) ==
    LET F[i \in 0 .. NumFiles] ==
            IF i = 0 THEN <<>>
            ELSE IF i \in files THEN Append(F[i - 1], i) ELSE F[i - 1]
    IN F[NumFiles]

\* The activation record of a call: where it is, its argument, the files left
\* to walk, its return value, and what it saw when it was made (whether the
\* mount succeeded, whether indexed_time was less than 24 hours old, the
\* Library at the call) and whether save_cache could open the cache file.
Activation(pc, force, todo, result, mounted, opened) ==
    [pc |-> pc, force |-> force, todo |-> todo, result |-> result,
     mounted |-> mounted, opened |-> opened,
     fresh |-> clock - 2 * indexed_time < DayTicks,
     pre |-> Snap(library, albums, artists, indexed_time)]

\* index_library that resets the Library before it looks at the mount.
IndexBeginResetFirst(c, force) ==
    /\ alive
    /\ ix[c].pc = "idle"
    /\ \E mounted \in BOOLEAN :
          IF ~mounted
          THEN /\ library' = <<>>
               /\ albums' = <<>>
               /\ artists' = <<>>
               /\ ix' = [ix EXCEPT ![c] = Activation("ret", force, <<>>,
                                                     FALSE, FALSE, FALSE)]
          ELSE IF ~force /\ IsFresh /\ albums # <<>>
          THEN /\ ix' = [ix EXCEPT ![c] = Activation("ret", force, <<>>,
                                                     TRUE, TRUE, FALSE)]
               /\ UNCHANGED <<library, albums, artists>>
          ELSE /\ library' = <<>>
               /\ albums' = <<>>
               /\ artists' = <<>>
               /\ ix' = [ix EXCEPT ![c] = Activation("walk", force,
                                                     WalkOrder(tree),
                                                     FALSE, TRUE, FALSE)]
    /\ UNCHANGED <<tree, hashseed, clock, cacheFile, alive, indexed_time,
                   idHist>>

\* Lines 52-68: the mount check, the freshness gate and the reset.
IndexBegin(c, force) ==
    /\ alive
    /\ ix[c].pc = "idle"
    /\ \E mounted \in BOOLEAN :
          IF ~mounted
          THEN /\ ix' = [ix EXCEPT ![c] = Activation("ret", force, <<>>,
                                                     FALSE, FALSE, FALSE)]
               /\ UNCHANGED <<library, albums, artists>>
          ELSE IF ~force /\ IsFresh /\ albums # <<>>
          THEN /\ ix' = [ix EXCEPT ![c] = Activation("ret", force, <<>>,
                                                     TRUE, TRUE, FALSE)]
               /\ UNCHANGED <<library, albums, artists>>
          ELSE /\ library' = <<>>
               /\ albums' = <<>>
               /\ artists' = <<>>
               /\ ix' = [ix EXCEPT ![c] = Activation("walk", force,
                                                     WalkOrder(tree),
                                                     FALSE, TRUE, FALSE)]
    /\ UNCHANGED <<tree, hashseed, clock, cacheFile, alive, indexed_time,
                   idHist>>

\* A walk that ends at the first file whose extraction raises.
IndexFileAbortsOnError(c) ==
    /\ ix[c].pc = "walk"
    /\ ix[c].todo # <<>>
    /\ LET n == Head(ix[c].todo) IN
          /\ IF FileIsMacMeta(n) \/ ~FileSupported(n) \/ FileIsDot(n)
                   \/ FileExtract(n) # "ok"
                THEN UNCHANGED library
                ELSE library' = DictPut(library, TrackId(hashseed, n),
                                        TrackInfo(n))
          /\ ix' = [ix EXCEPT ![c].todo = IF FileExtract(n) = "raise"
                                             THEN <<>> ELSE Tail(@)]
    /\ UNCHANGED <<tree, hashseed, clock, cacheFile, alive, albums, artists,
                   indexed_time, lpc, lret, idHist>>

\* Lines 73-84, one file of the walk.  A file on which MutagenFile returns
\* None or raises is skipped (lines 107-108 and 177-178); otherwise the
\* track is put into self.library.
IndexFile(c) ==
    /\ ix[c].pc = "walk"
    /\ ix[c].todo # <<>>
    /\ LET n == Head(ix[c].todo) IN
          IF FileIsMacMeta(n) \/ ~FileSupported(n) \/ FileIsDot(n)
                \/ FileExtract(n) # "ok"
          THEN UNCHANGED library
          ELSE library' = DictPut(library, TrackId(hashseed, n), TrackInfo(n))
    /\ ix' = [ix EXCEPT ![c].todo = Tail(@)]
    /\ UNCHANGED <<tree, hashseed, clock, cacheFile, alive, albums, artists,
                   indexed_time, lpc, lret, idHist>>

\* Lines 86-87.
IndexOrganize(c) ==
    /\ ix[c].pc = "walk"
    /\ ix[c].todo = <<>>
    /\ albums' = OrganizeLibrary(library, albums, artists).albums
    /\ artists' = OrganizeLibrary(library, albums, artists).artists
    /\ ix' = [ix EXCEPT ![c].pc = "commit"]
    /\ UNCHANGED <<tree, hashseed, clock, cacheFile, alive, library,
                   indexed_time, lpc, lret, idHist>>

\* Lines 86-87 when _organize_library raises while it aggregates the k-th
\* track (an error nothing in index_library expects): the albums and
\* artists aggregated so far stay, lines 89-95 are not reached and the
\* exception leaves index_library, which has no handler around the call.
IndexOrganizeRaises(c) ==
    /\ ix[c].pc = "walk"
    /\ ix[c].todo = <<>>
    /\ \E k \in 1 .. Len(library) :
          LET done == OrganizeFrom(SubSeq(library, 1, k - 1), 1,
                                   [albums |-> albums, artists |-> artists])
          IN  /\ albums' = done.albums
              /\ artists' = done.artists
    /\ ix' = [ix EXCEPT ![c].pc = "raised"]
    /\ UNCHANGED <<tree, hashseed, clock, cacheFile, alive, library,
                   indexed_time, lpc, lret, idHist>>

\* Lines 89-95: indexed_time, save_cache, return True.
IndexCommit(c) ==
    /\ ix[c].pc = "commit"
    /\ indexed_time' = clock \div 2
    /\ \E opened \in BOOLEAN :
          /\ cacheFile' = CacheSave(cacheFile,
                                    Snap(library, albums, artists,
                                         clock \div 2),
                                    opened)
          /\ ix' = [ix EXCEPT ![c].pc = "ret", ![c].result = TRUE,
                              ![c].opened = opened]
    /\ UNCHANGED <<tree, hashseed, clock, alive, library, albums, artists,
                   lpc, lret, idHist>>

(***************************************************************************)
(* The callers of index_library.                                           *)
(***************************************************************************)
\* main.py:72-77 (_load_library), run on the event loop.
LoopIndexCall ==
    /\ lpc = "idle"
    /\ IndexBegin("loop", FALSE)
    /\ lpc' = "index"
    /\ UNCHANGED lret

LoopIndexReturn ==
    /\ lpc = "index"
    /\ ix["loop"].pc = "ret"
    /\ lret' = [op |-> "index",
                kind |-> IF ix["loop"].result THEN "True" ELSE "False",
                key |-> <<>>]
    /\ ix' = [ix EXCEPT !["loop"] = IdleIx]
    /\ lpc' = "done"
    /\ UNCHANGED <<tree, hashseed, clock, cacheFile, alive, library, albums,
                   artists, indexed_time, idHist>>

\* telegram_bot.py:253-261: index_library(force=True) in the executor; the
\* handler awaits it, and the bot handles one update at a time.
RescanCall ==
    /\ lpc = "idle"
    /\ IndexBegin("exec", TRUE)
    /\ lpc' = "rescan"
    /\ UNCHANGED lret

RescanReturn ==
    /\ lpc = "rescan"
    /\ ix["exec"].pc = "ret"
    /\ ix' = [ix EXCEPT !["exec"] = IdleIx]
    /\ lpc' = "done"
    /\ lret' = [op |-> "rescan", kind |-> "None", key |-> <<>>]
    /\ UNCHANGED <<tree, hashseed, clock, cacheFile, alive, library, albums,
                   artists, indexed_time, idHist>>

(***************************************************************************)
(* MusicLibrary.get_random_album, called on the event loop.                *)
(***************************************************************************)
\* Lines 258-259: index on demand when there are no albums.
RandomCall ==
    /\ lpc = "idle"
    /\ alive
    /\ IF albums = <<>>
       THEN /\ IndexBegin("loop", FALSE)
            /\ lpc' = "rand_index"
       ELSE /\ lpc' = "rand_pick"
            /\ UNCHANGED <<tree, hashseed, clock, cacheFile, alive, library,
                           albums, artists, indexed_time, ix, idHist>>
    /\ UNCHANGED lret

\* Lines 259-260: return None when the index failed.
RandomAfterIndex ==
    /\ lpc = "rand_index"
    /\ ix["loop"].pc = "ret"
    /\ IF ix["loop"].result
       THEN lpc' = "rand_pick" /\ UNCHANGED lret
       ELSE /\ lpc' = "done"
            /\ lret' = [op |-> "random", kind |-> "None", key |-> <<>>]
    /\ ix' = [ix EXCEPT !["loop"] = IdleIx]
    /\ UNCHANGED <<tree, hashseed, clock, cacheFile, alive, library, albums,
                   artists, indexed_time, idHist>>

\* Line 262: random.choice(list(self.albums.keys())) raises IndexError on
\* an empty list.
RandomPick ==
    /\ lpc = "rand_pick"
    /\ IF albums = <<>>
       THEN /\ lret' = [op |-> "random", kind |-> "IndexError", key |-> <<>>]
            /\ lpc' = "done"
       ELSE /\ \E i \in 1 .. Len(albums) :
                  lret' = [op |-> "random", kind |-> "picked",
                           key |-> albums[i].k]
            /\ lpc' = "rand_read"
    /\ UNCHANGED <<tree, hashseed, clock, cacheFile, alive, library, albums,
                   artists, indexed_time, ix, idHist>>

\* Lines 263-268: self.albums[album_key] raises KeyError when the key is gone.
RandomRead ==
    /\ lpc = "rand_read"
    /\ lret' = [lret EXCEPT !.kind = IF DictHas(albums, lret.key)
                                     THEN "album" ELSE "KeyError"]
    /\ lpc' = "done"
    /\ UNCHANGED <<tree, hashseed, clock, cacheFile, alive, library, albums,
                   artists, indexed_time, ix, idHist>>

\* The exception of index_library reaches its caller: _load_library logs it
\* (main.py:75-76); in cmd_rescan it comes out of the await of line 258 and
\* in get_random_album out of line 259, and the bot's dispatcher logs it.
IndexRaised ==
    /\ \E c \in {"loop", "exec"} :
          /\ ix[c].pc = "raised"
          /\ ix' = [ix EXCEPT ![c] = IdleIx]
    /\ lpc \in {"index", "rescan", "rand_index"}
    /\ lret' = [op |-> CASE lpc = "index" -> "index"
                         [] lpc = "rescan" -> "rescan"
                         [] OTHER -> "random",
                kind |-> "Exception", key |-> <<>>]
    /\ lpc' = "done"
    /\ UNCHANGED <<tree, hashseed, clock, cacheFile, alive, library, albums,
                   artists, indexed_time, idHist>>

\* The handler that made the call goes on with its outcome and ends; an
\* exception is logged by the bot's dispatcher.
LoopResume ==
    /\ lpc = "done"
    /\ lpc' = "idle"
    /\ lret' = NoRet
    /\ UNCHANGED <<tree, hashseed, clock, cacheFile, alive, library, albums,
                   artists, indexed_time, ix, idHist>>

(***************************************************************************)
(* MusicLibrary.search_album and get_album_tracks.                         *)
(***************************************************************************)
\* The characters of the lower-case strings of the model.
Chars(s) ==
    CASE s = "ab" -> <<"a", "b">>
      [] s = "abc" -> <<"a", "b", "c">>
      [] s = "b" -> <<"b">>
      [] s = "x" -> <<"x">>
      [] s = "zed" -> <<"z", "e", "d">>
      [] s = "-" -> <<"-">>
      [] s = "artist" -> <<"a", "r", "t", "i", "s", "t">>
      [] s = "other" -> <<"o", "t", "h", "e", "r">>
      [] s = "albumx" -> <<"a", "l", "b", "u", "m", "x">>
      [] s = "albumy" -> <<"a", "l", "b", "u", "m", "y">>
      [] OTHER -> <<>>

\* q in s, on characters.
Contains(q, s) ==
    \E i \in 0 .. Len(s) - Len(q) : SubSeq(s, i + 1, i + Len(q)) = q

\* The characters of f"{artist} - {album}".lower() (line 183) for a key.
KeyText(key) == Chars(key[1]) \o <<" ", "-", " ">> \o Chars(key[2])

\* Line 224, for the lower-case query q.
SearchMatch(q, entry) ==
    \/ Contains(Chars(q), KeyText(entry.k))
    \/ Contains(Chars(q), Chars(Lower(entry.v.name)))
    \/ Contains(Chars(q), Chars(Lower(entry.v.artist)))

\* A sort key that does not tell the equal name from the containing one.
SearchRankNoExact(q, result) ==
    IF Contains(Chars(q), Chars(Lower(result.name))) THEN 1 ELSE 2

\* Lines 233-237, the sort key.
SearchRank(q, result) ==
    IF Lower(result.name) = q THEN 0
    ELSE IF Contains(Chars(q), Chars(Lower(result.name))) THEN 1
    ELSE 2

\* list.sort(key=...) is stable.
RECURSIVE InsertByRank(_, _, _)
InsertByRank(sorted, x, q) ==
    IF sorted = <<>> THEN <<x>>
    ELSE IF SearchRank(q, Head(sorted)) <= SearchRank(q, x)
         THEN <<Head(sorted)>> \o InsertByRank(Tail(sorted), x, q)
         ELSE <<x>> \o sorted

RECURSIVE SortByRank(_, _)
SortByRank(results, q) ==
    IF results = <<>> THEN <<>>
    ELSE InsertByRank(SortByRank(SubSeq(results, 1, Len(results) - 1), q),
                      results[Len(results)], q)

\* Lines 219-239 over the albums in their dict order.
SearchAlbums(albs, query) ==
    LET q == Lower(query)
        Hit(entry) == SearchMatch(q, entry)
        hits == SelectSeq(albs, Hit)
        results == [i \in 1 .. Len(hits) |->
                       [key |-> hits[i].k, name |-> hits[i].v.name,
                        artist |-> hits[i].v.artist,
                        track_count |-> hits[i].v.track_count]]
    IN SortByRank(results, q)

\* sorted(tracks, key=track_number) that puts a track before those of the
\* same number.
RECURSIVE InsertTrackBeforeEqual(_, _)
InsertTrackBeforeEqual(sorted, t) ==
    IF sorted = <<>> THEN <<t>>
    ELSE IF Head(sorted).track_number < t.track_number
         THEN <<Head(sorted)>> \o InsertTrackBeforeEqual(Tail(sorted), t)
         ELSE <<t>> \o sorted

\* sorted(tracks, key=track_number) is stable (line 253).
RECURSIVE InsertTrack(_, _)
InsertTrack(sorted, t) ==
    IF sorted = <<>> THEN <<t>>
    ELSE IF Head(sorted).track_number <= t.track_number
         THEN <<Head(sorted)>> \o InsertTrack(Tail(sorted), t)
         ELSE <<t>> \o sorted

RECURSIVE SortTracks(_)
SortTracks(tracks) ==
    IF tracks = <<>> THEN <<>>
    ELSE InsertTrack(SortTracks(SubSeq(tracks, 1, Len(tracks) - 1)),
                     tracks[Len(tracks)])

\* Lines 241-253.
GetAlbumTracks(albs, lib, key) ==
    IF ~DictHas(albs, key) THEN <<>>
    ELSE LET Known(id) == DictHas(lib, id)
             ids == SelectSeq(DictGet(albs, key).tracks, Known)
         IN SortTracks([i \in 1 .. Len(ids) |-> DictGet(lib, ids[i])])

(***************************************************************************)
(* The environment: time passes; the process is restarted.                 *)
(***************************************************************************)
\* The clock visits, in each day, its start and half a second before its
\* end: it advances by 24 hours less half a second, then by half a second.
Tick ==
    /\ \E d \in {1, DayTicks - 1} :
          /\ (d = 1) = ((clock - ClockStart) % DayTicks # 0)
          /\ clock + d <= ClockEnd
          /\ clock' = clock + d
    /\ UNCHANGED <<tree, hashseed, cacheFile, alive, library, albums, artists,
                   indexed_time, ix, lpc, lret, idHist>>

\* A new process: a new hash seed, and MusicLibrary() on the cache file as
\* the old process left it (music_library.py:20-25).
Restart ==
    /\ \E s \in Seeds : hashseed' = s
    /\ alive' = ~Construct(cacheFile).raised
    /\ library' = Construct(cacheFile).snap.tracks
    /\ albums' = Construct(cacheFile).snap.albums
    /\ artists' = Construct(cacheFile).snap.artists
    /\ indexed_time' = Construct(cacheFile).snap.indexed_time
    /\ ix' = [c \in {"loop", "exec"} |-> IdleIx]
    /\ lpc' = "idle"
    /\ lret' = NoRet
    /\ UNCHANGED <<tree, clock, cacheFile, idHist>>

LibNext ==
    \/ (LoopIndexCall) /\ UNCHANGED <<playerVars, apiVars>>
    \/ (LoopIndexReturn) /\ UNCHANGED <<playerVars, apiVars>>
    \/ (RescanCall) /\ UNCHANGED <<playerVars, apiVars>>
    \/ (RescanReturn) /\ UNCHANGED <<playerVars, apiVars>>
    \/ (\E c \in {"loop", "exec"} : IndexFile(c)) /\ UNCHANGED <<playerVars, apiVars>>
    \/ (\E c \in {"loop", "exec"} : IndexOrganize(c)) /\ UNCHANGED <<playerVars, apiVars>>
    \/ (\E c \in {"loop", "exec"} : IndexOrganizeRaises(c)) /\ UNCHANGED <<playerVars, apiVars>>
    \/ (\E c \in {"loop", "exec"} : IndexCommit(c)) /\ UNCHANGED <<playerVars, apiVars>>
    \/ (IndexRaised) /\ UNCHANGED <<playerVars, apiVars>>
    \/ (RandomCall) /\ UNCHANGED <<playerVars, apiVars>>
    \/ (RandomAfterIndex) /\ UNCHANGED <<playerVars, apiVars>>
    \/ (RandomPick) /\ UNCHANGED <<playerVars, apiVars>>
    \/ (RandomRead) /\ UNCHANGED <<playerVars, apiVars>>
    \/ (LoopResume) /\ UNCHANGED <<playerVars, apiVars>>
    \/ (Tick) /\ UNCHANGED <<playerVars, apiVars>>
    \/ (Restart) /\ UNCHANGED <<playerVars, apiVars>>

LibSpec == LibInit /\ [][LibNext]_vars

(***************************************************************************)
(* Track ids over several runs of the program: each run draws its hash     *)
(* seed and gives ids to the files it processes.                           *)
(***************************************************************************)
HashInit ==
    /\ tree = Paths
    /\ hashseed \in Seeds
    /\ clock = ClockStart
    /\ cacheFile = FileAbsent
    /\ alive = TRUE
    /\ library = <<>>
    /\ albums = <<>>
    /\ artists = <<>>
    /\ indexed_time = 0
    /\ ix = [c \in {"loop", "exec"} |-> IdleIx]
    /\ lpc = "idle"
    /\ lret = NoRet
    /\ idHist = [p \in Paths |-> {}]
    /\ PlayerStart
    /\ ApiStart

\* music_library.py:173-175 for file n, in the current process.
AssignId(n) ==
    /\ idHist' = [idHist EXCEPT ![n] = @ \cup {TrackId(hashseed, n)}]
    /\ UNCHANGED <<tree, hashseed, clock, cacheFile, alive, library, albums,
                   artists, indexed_time, ix, lpc, lret>>

\* The interpreter starts again and draws a hash seed.
NewProcess ==
    /\ \E s \in Seeds : hashseed' = s
    /\ UNCHANGED <<tree, clock, cacheFile, alive, library, albums, artists,
                   indexed_time, ix, lpc, lret, idHist>>

HashNext ==
    \/ (\E n \in tree : AssignId(n)) /\ UNCHANGED <<playerVars, apiVars>>
    \/ NewProcess /\ UNCHANGED <<playerVars, apiVars>>

HashSpec == HashInit /\ [][HashNext]_vars

(***************************************************************************)
(* search_album and get_album_tracks as functions of the Library: the      *)
(* Library is the one a scan builds from up to MaxTracks tagged tracks, or *)
(* is empty over a share that a query indexes on demand.                   *)
(***************************************************************************)
QueryArtists == {"ab", "Zed"}

QueryAlbums == {"AB", "abc", "x"}

QueryNumbers == {1, 2}

Queries == {"AB", "b", "-"}

\* A key that no album has.
UnknownKey == <<"zed", "none">>

\* The tagged tracks a scan may find, in the order of the walk; the i-th has
\* path 10 + i.
TrackLists ==
    UNION {[1 .. n -> QueryArtists \X QueryAlbums \X QueryNumbers] :
              n \in 0 .. MaxTracks}

\* self.library after the walk over the tracks of list l (lines 173-175).
LibraryOf(l) ==
    [i \in 1 .. Len(l) |->
        [k |-> TrackId(0, 10 + i),
         v |-> [path |-> 10 + i, album |-> l[i][2], artist |-> l[i][1],
                title |-> "", track_number |-> l[i][3]]]]

QueryInit ==
    /\ \E l \in TrackLists :
          /\ library = LibraryOf(l)
          /\ albums = OrganizeLibrary(LibraryOf(l), <<>>, <<>>).albums
          /\ artists = OrganizeLibrary(LibraryOf(l), <<>>, <<>>).artists
          /\ indexed_time = IF l = <<>> THEN 0 ELSE ClockStart \div 2
          /\ tree \in IF l = <<>> THEN {1 .. k : k \in 0 .. NumFiles} ELSE {{}}
    /\ hashseed = 0
    /\ clock = ClockStart
    /\ cacheFile = FileAbsent
    /\ alive = TRUE
    /\ ix = [c \in {"loop", "exec"} |-> IdleIx]
    /\ lpc = "idle"
    /\ lret = NoRet
    /\ idHist = [p \in Paths |-> {}]
    /\ PlayerStart
    /\ ApiStart

\* What search_album(query) has returned.
SearchResult(query, results) ==
    [op |-> "search", kind |-> "results", key |-> results, query |-> query]

\* Lines 215-217 and, with albums, the whole of search_album.
SearchCall(query) ==
    /\ lpc = "idle"
    /\ alive
    /\ IF albums = <<>>
       THEN /\ IndexBegin("loop", FALSE)
            /\ lpc' = "search_index"
            /\ lret' = [SearchResult(query, <<>>) EXCEPT !.kind = "pending"]
       ELSE /\ lpc' = "done"
            /\ lret' = SearchResult(query, SearchAlbums(albums, query))
            /\ UNCHANGED <<tree, hashseed, clock, cacheFile, alive, library,
                           albums, artists, indexed_time, ix, idHist>>

\* Lines 216-239 after the index on demand.
SearchAfterIndex ==
    /\ lpc = "search_index"
    /\ ix["loop"].pc = "ret"
    /\ lret' = SearchResult(lret.query,
                            IF ix["loop"].result
                               THEN SearchAlbums(albums, lret.query)
                               ELSE <<>>)
    /\ lpc' = "done"
    /\ ix' = [ix EXCEPT !["loop"] = IdleIx]
    /\ UNCHANGED <<tree, hashseed, clock, cacheFile, alive, library, albums,
                   artists, indexed_time, idHist>>

\* Lines 241-253.
AlbumTracksCall(key) ==
    /\ lpc = "idle"
    /\ alive
    /\ lpc' = "done"
    /\ lret' = [op |-> "album_tracks", kind |-> "tracks",
                key |-> GetAlbumTracks(albums, library, key), query |-> key]
    /\ UNCHANGED <<tree, hashseed, clock, cacheFile, alive, library, albums,
                   artists, indexed_time, ix, idHist>>

QueryNext ==
    \/ (\E q \in Queries : SearchCall(q)) /\ UNCHANGED <<playerVars, apiVars>>
    \/ SearchAfterIndex /\ UNCHANGED <<playerVars, apiVars>>
    \/ (\E key \in DictKeys(albums) \cup {UnknownKey} : AlbumTracksCall(key))
          /\ UNCHANGED <<playerVars, apiVars>>
    \/ IndexFile("loop") /\ UNCHANGED <<playerVars, apiVars>>
    \/ IndexOrganize("loop") /\ UNCHANGED <<playerVars, apiVars>>
    \/ IndexCommit("loop") /\ UNCHANGED <<playerVars, apiVars>>
    \/ LoopResume /\ UNCHANGED <<playerVars, apiVars>>

QuerySpec == QueryInit /\ [][QueryNext]_vars

(***************************************************************************)
(* The player.  Three threads touch it without a lock: the controller      *)
(* (the asyncio loop, record ctl), the monitor thread (record mon) and the *)
(* VLC event thread that runs _on_media_end (record ev).  A step is one    *)
(* read or write of a shared attribute, or a run of them that no other     *)
(* thread of the model can tell apart.                                     *)
(***************************************************************************)
\* The library while the player is exercised: empty and idle.
LibQuiet ==
    /\ tree = {}
    /\ hashseed = 0
    /\ clock = ClockStart
    /\ cacheFile = FileAbsent
    /\ alive = TRUE
    /\ library = <<>>
    /\ albums = <<>>
    /\ artists = <<>>
    /\ indexed_time = 0
    /\ ix = [c \in {"loop", "exec"} |-> IdleIx]
    /\ lpc = "idle"
    /\ lret = NoRet
    /\ idHist = [p \in Paths |-> {}]

PlayerInit == LibQuiet /\ PlayerStart /\ ApiStart

\* The point at which a command gives its result back to the controller.
Returned(op, ret) == [pc |-> "ret", op |-> op, ret |-> ret, arg |-> 0, tmp |-> 0]

\* player.py:54, monitor_thread is not None and monitor_thread.is_alive().
MonitorAlive == mon.pc \notin {"none", "dead"}

\* A thread about to evaluate the loop condition of _monitor_playback for
\* the first time (player.py:70-73).
FreshMonitor == [pc |-> "loop", last_track_index |-> -1, last_position |-> -100,
                 position |-> -100, current_track |-> -1, track_info |-> 0]

\* player.py:48-50, called once by the controller (telegram_bot.py:21).
SetStatusCallback ==
    /\ ctl.pc = "idle"
    /\ ~status_callback
    /\ status_callback' = TRUE
    /\ ctl' = Returned("set_status_callback", TRUE)
    /\ resumeIdx' = {}
    /\ UNCHANGED <<state, current_album, current_track_index, current_playlist,
                   monitor_running, vlc, pending, mon, ev, emitted>>

\* play() that starts the monitor under any playlist: the empty check of
\* player.py:131-133 is left out.
PlayUnguarded ==
    /\ ctl.pc = "idle"
    /\ vlc' = "playing"
    /\ state' = "PLAYING"
    /\ IF MonitorAlive
          THEN UNCHANGED <<monitor_running, mon>>
          ELSE monitor_running' = TRUE /\ mon' = FreshMonitor
    /\ ctl' = Returned("play", TRUE)
    /\ resumeIdx' = {}
    /\ UNCHANGED <<current_album, current_track_index, current_playlist,
                   status_callback, pending, ev, emitted>>

\* player.py:129-146 with _start_monitor, 52-60.
Play ==
    /\ ctl.pc = "idle"
    /\ IF current_playlist = <<>>
          THEN /\ ctl' = Returned("play", FALSE)
               /\ UNCHANGED <<state, vlc, monitor_running, mon>>
          ELSE /\ vlc' = "playing"
               /\ state' = "PLAYING"
               /\ IF MonitorAlive
                     THEN UNCHANGED <<monitor_running, mon>>
                     ELSE monitor_running' = TRUE /\ mon' = FreshMonitor
               /\ ctl' = Returned("play", TRUE)
    /\ resumeIdx' = {}
    /\ UNCHANGED <<current_album, current_track_index, current_playlist,
                   status_callback, pending, ev, emitted>>

\* pause() that pauses from any state.
PauseAlways ==
    /\ ctl.pc = "idle"
    /\ vlc' = "paused"
    /\ state' = "PAUSED"
    /\ ctl' = Returned("pause", TRUE)
    /\ resumeIdx' = {current_track_index}
    /\ UNCHANGED <<current_album, current_track_index, current_playlist,
                   monitor_running, status_callback, pending, mon, ev, emitted>>

\* player.py:148-155.
Pause ==
    /\ ctl.pc = "idle"
    /\ IF state = "PLAYING"
          THEN /\ vlc' = "paused"
               /\ state' = "PAUSED"
               /\ ctl' = Returned("pause", TRUE)
               /\ resumeIdx' = {current_track_index}
          ELSE /\ ctl' = Returned("pause", FALSE)
               /\ resumeIdx' = {}
               /\ UNCHANGED <<state, vlc>>
    /\ UNCHANGED <<current_album, current_track_index, current_playlist,
                   monitor_running, status_callback, pending, mon, ev, emitted>>

\* player.py:157-162.
Stop ==
    /\ ctl.pc = "idle"
    /\ vlc' = "stopped"
    /\ state' = "STOPPED"
    /\ ctl' = Returned("stop", TRUE)
    /\ resumeIdx' = {}
    /\ UNCHANGED <<current_album, current_track_index, current_playlist,
                   monitor_running, status_callback, pending, mon, ev, emitted>>

\* The index next_track would store without wrapping.
NextIndexNoWrap(i, n) == i + 1

\* player.py:170, Python's % (the result has the sign of the divisor).
NextIndex(i, n) == (i + 1) % n

\* player.py:180.
PreviousIndex(i, n) == (i - 1) % n

\* player.py:166-170 and 176-180 up to the read of current_track_index.
SkipBegin(op) ==
    /\ ctl.pc = "idle"
    /\ IF Len(current_playlist) <= 1
          THEN ctl' = Returned(op, FALSE)
          ELSE ctl' = [pc |-> op \o "_w", op |-> op, ret |-> FALSE, arg |-> 0,
                       tmp |-> current_track_index]
    /\ resumeIdx' = {}
    /\ UNCHANGED <<state, current_album, current_track_index, current_playlist,
                   monitor_running, status_callback, vlc, pending, mon, ev,
                   emitted>>

NextBegin == SkipBegin("next_track")

PreviousBegin == SkipBegin("previous_track")

\* player.py:170-172, the store.
NextWrite ==
    /\ ctl.pc = "next_track_w"
    /\ current_track_index' = NextIndex(ctl.tmp, Len(current_playlist))
    /\ ctl' = [Returned("next_track", TRUE) EXCEPT !.tmp = ctl.tmp]
    /\ UNCHANGED <<state, current_album, current_playlist, monitor_running,
                   status_callback, vlc, pending, mon, ev, emitted, resumeIdx>>

\* player.py:180-182, the store.
PreviousWrite ==
    /\ ctl.pc = "previous_track_w"
    /\ current_track_index' = PreviousIndex(ctl.tmp, Len(current_playlist))
    /\ ctl' = [Returned("previous_track", TRUE) EXCEPT !.tmp = ctl.tmp]
    /\ UNCHANGED <<state, current_album, current_playlist, monitor_running,
                   status_callback, vlc, pending, mon, ev, emitted, resumeIdx>>

\* player.py:107-119: stop(), then the backend's media list is replaced.
LoadStop(a) ==
    /\ ctl.pc = "idle"
    /\ vlc' = "stopped"
    /\ state' = "STOPPED"
    /\ ctl' = [pc |-> "load_album", op |-> "load_playlist", ret |-> FALSE,
               arg |-> a, tmp |-> 0]
    /\ resumeIdx' = {}
    /\ UNCHANGED <<current_album, current_track_index, current_playlist,
                   monitor_running, status_callback, pending, mon, ev, emitted>>

\* player.py:122.
LoadAlbum ==
    /\ ctl.pc = "load_album"
    /\ current_album' = ctl.arg
    /\ ctl' = [ctl EXCEPT !.pc = "load_list"]
    /\ UNCHANGED <<state, current_track_index, current_playlist,
                   monitor_running, status_callback, vlc, pending, mon, ev,
                   emitted, resumeIdx>>

\* player.py:123.
LoadList ==
    /\ ctl.pc = "load_list"
    /\ current_playlist' = AlbumTracks(ctl.arg)
    /\ ctl' = [ctl EXCEPT !.pc = "load_index"]
    /\ UNCHANGED <<state, current_album, current_track_index, monitor_running,
                   status_callback, vlc, pending, mon, ev, emitted, resumeIdx>>

\* load_playlist that returns without resetting current_track_index.
LoadIndexKept ==
    /\ ctl.pc = "load_index"
    /\ ctl' = Returned("load_playlist", TRUE)
    /\ UNCHANGED <<state, current_album, current_track_index, current_playlist,
                   monitor_running, status_callback, vlc, pending, mon, ev,
                   emitted, resumeIdx>>

\* player.py:124-127.
LoadIndex ==
    /\ ctl.pc = "load_index"
    /\ current_track_index' = 0
    /\ ctl' = Returned("load_playlist", TRUE)
    /\ UNCHANGED <<state, current_album, current_playlist, monitor_running,
                   status_callback, vlc, pending, mon, ev, emitted, resumeIdx>>

\* The controller takes the result and is free for the next command.
CtlReturn ==
    /\ ctl.pc = "ret"
    /\ ctl' = IdleCtl
    /\ UNCHANGED <<state, current_album, current_track_index, current_playlist,
                   monitor_running, status_callback, vlc, pending, mon, ev,
                   emitted, resumeIdx>>

\* abs(position - last_position) > 0.05, in hundredths (player.py:80).
Abs(x) == IF x < 0 THEN -x ELSE x

\* player.py:73-74 after the sleep of line 95: the loop condition, then the
\* state check.
MonLoop ==
    /\ mon.pc = "loop"
    /\ mon' = [mon EXCEPT !.pc = IF ~monitor_running THEN "dead"
                                 ELSE IF state = "PLAYING" THEN "position"
                                 ELSE "loop",
                          !.position = -100, !.current_track = -1,
                          !.track_info = 0]
    /\ UNCHANGED <<state, current_album, current_track_index, current_playlist,
                   monitor_running, status_callback, vlc, pending, ctl, ev,
                   emitted, resumeIdx>>

\* player.py:75.
MonPosition ==
    /\ mon.pc = "position"
    /\ \E p \in Positions : mon' = [mon EXCEPT !.pc = "track", !.position = p]
    /\ UNCHANGED <<state, current_album, current_track_index, current_playlist,
                   monitor_running, status_callback, vlc, pending, ctl, ev,
                   emitted, resumeIdx>>

\* player.py:76-84: the index is read, compared with the last report, and
\* status_callback is tested.
MonTrack ==
    /\ mon.pc = "track"
    /\ LET t == current_track_index
           changed == \/ t # mon.last_track_index
                      \/ Abs(mon.position - mon.last_position) > 5
       IN  mon' = IF changed
                     THEN [mon EXCEPT !.current_track = t,
                                      !.last_track_index = t,
                                      !.last_position = mon.position,
                                      !.pc = IF status_callback THEN "info"
                                             ELSE "loop"]
                     ELSE [mon EXCEPT !.current_track = t, !.pc = "loop"]
    /\ UNCHANGED <<state, current_album, current_track_index, current_playlist,
                   monitor_running, status_callback, vlc, pending, ctl, ev,
                   emitted, resumeIdx>>

\* player.py:85, the range test of the conditional expression.
MonInfoTest ==
    /\ mon.pc = "info"
    /\ mon' = [mon EXCEPT !.pc = IF /\ 0 <= mon.current_track
                                    /\ mon.current_track < Len(current_playlist)
                                    THEN "info_read" ELSE "status"]
    /\ UNCHANGED <<state, current_album, current_track_index, current_playlist,
                   monitor_running, status_callback, vlc, pending, ctl, ev,
                   emitted, resumeIdx>>

\* player.py:85, the subscript: a second load of current_playlist, which
\* raises IndexError in the thread when the list has been replaced by a
\* shorter one.
MonInfoRead ==
    /\ mon.pc = "info_read"
    /\ mon' = IF mon.current_track < Len(current_playlist)
                 THEN [mon EXCEPT !.pc = "status",
                           !.track_info = current_playlist[mon.current_track + 1]]
                 ELSE [mon EXCEPT !.pc = "dead"]
    /\ UNCHANGED <<state, current_album, current_track_index, current_playlist,
                   monitor_running, status_callback, vlc, pending, ctl, ev,
                   emitted, resumeIdx>>

\* player.py:86-92: the status is built from state and current_album as they
\* are now; emitted holds it until the callback is entered.
MonStatus ==
    /\ mon.pc = "status"
    /\ mon' = [mon EXCEPT !.pc = "emit"]
    /\ emitted' = [state |-> state, album |-> current_album,
                   track |-> mon.track_info, position |-> mon.position]
    /\ UNCHANGED <<state, current_album, current_track_index, current_playlist,
                   monitor_running, status_callback, vlc, pending, ctl, ev,
                   resumeIdx>>

\* player.py:93, the call.
MonEmit ==
    /\ mon.pc = "emit"
    /\ mon' = [mon EXCEPT !.pc = "in_callback"]
    /\ UNCHANGED <<state, current_album, current_track_index, current_playlist,
                   monitor_running, status_callback, vlc, pending, ctl, ev,
                   emitted, resumeIdx>>

\* player.py:93-95, the callback returns and the thread sleeps.
MonCallbackReturn ==
    /\ mon.pc = "in_callback"
    /\ mon' = [mon EXCEPT !.pc = "loop"]
    /\ emitted' = NoStatus
    /\ UNCHANGED <<state, current_album, current_track_index, current_playlist,
                   monitor_running, status_callback, vlc, pending, ctl, ev,
                   resumeIdx>>

\* The backend reaches the end of a track while it plays and queues
\* MediaPlayerEndReached (player.py:39).
TrackEnds ==
    /\ vlc = "playing"
    /\ ~pending
    /\ pending' = TRUE
    /\ UNCHANGED <<state, current_album, current_track_index, current_playlist,
                   monitor_running, status_callback, vlc, ctl, mon, ev,
                   emitted, resumeIdx>>

\* player.py:97-100: the event thread enters _on_media_end and tests state.
EvDeliver ==
    /\ pending
    /\ ev.pc = "idle"
    /\ pending' = FALSE
    /\ ev' = IF state = "PLAYING" THEN [pc |-> "read", tmp |-> 0] ELSE IdleEv
    /\ UNCHANGED <<state, current_album, current_track_index, current_playlist,
                   monitor_running, status_callback, vlc, ctl, mon, emitted,
                   resumeIdx>>

\* player.py:101, the load of current_track_index += 1.
EvRead ==
    /\ ev.pc = "read"
    /\ ev' = [pc |-> "write", tmp |-> current_track_index]
    /\ UNCHANGED <<state, current_album, current_track_index, current_playlist,
                   monitor_running, status_callback, vlc, pending, ctl, mon,
                   emitted, resumeIdx>>

\* player.py:101, the store.
EvWrite ==
    /\ ev.pc = "write"
    /\ current_track_index' = ev.tmp + 1
    /\ ev' = [pc |-> "wrap", tmp |-> 0]
    /\ UNCHANGED <<state, current_album, current_playlist, monitor_running,
                   status_callback, vlc, pending, ctl, mon, emitted, resumeIdx>>

\* _on_media_end that wraps only when the index is beyond the length, so
\* that the index one past the last track is kept.
EvWrapPastLength ==
    /\ ev.pc = "wrap"
    /\ IF current_track_index > Len(current_playlist)
          THEN current_track_index' = 0
          ELSE UNCHANGED current_track_index
    /\ ev' = IdleEv
    /\ UNCHANGED <<state, current_album, current_playlist, monitor_running,
                   status_callback, vlc, pending, ctl, mon, emitted, resumeIdx>>

\* player.py:102-103.
EvWrap ==
    /\ ev.pc = "wrap"
    /\ IF current_track_index >= Len(current_playlist)
          THEN current_track_index' = 0
          ELSE UNCHANGED current_track_index
    /\ ev' = IdleEv
    /\ UNCHANGED <<state, current_album, current_playlist, monitor_running,
                   status_callback, vlc, pending, ctl, mon, emitted, resumeIdx>>

PlayerNext ==
    \/ SetStatusCallback /\ UNCHANGED <<libVars, apiVars>>
    \/ Play /\ UNCHANGED <<libVars, apiVars>>
    \/ Pause /\ UNCHANGED <<libVars, apiVars>>
    \/ Stop /\ UNCHANGED <<libVars, apiVars>>
    \/ NextBegin /\ UNCHANGED <<libVars, apiVars>>
    \/ NextWrite /\ UNCHANGED <<libVars, apiVars>>
    \/ PreviousBegin /\ UNCHANGED <<libVars, apiVars>>
    \/ PreviousWrite /\ UNCHANGED <<libVars, apiVars>>
    \/ (\E a \in Albums : LoadStop(a)) /\ UNCHANGED <<libVars, apiVars>>
    \/ LoadAlbum /\ UNCHANGED <<libVars, apiVars>>
    \/ LoadList /\ UNCHANGED <<libVars, apiVars>>
    \/ LoadIndex /\ UNCHANGED <<libVars, apiVars>>
    \/ CtlReturn /\ UNCHANGED <<libVars, apiVars>>
    \/ MonLoop /\ UNCHANGED <<libVars, apiVars>>
    \/ MonPosition /\ UNCHANGED <<libVars, apiVars>>
    \/ MonTrack /\ UNCHANGED <<libVars, apiVars>>
    \/ MonInfoTest /\ UNCHANGED <<libVars, apiVars>>
    \/ MonInfoRead /\ UNCHANGED <<libVars, apiVars>>
    \/ MonStatus /\ UNCHANGED <<libVars, apiVars>>
    \/ MonEmit /\ UNCHANGED <<libVars, apiVars>>
    \/ MonCallbackReturn /\ UNCHANGED <<libVars, apiVars>>
    \/ TrackEnds /\ UNCHANGED <<libVars, apiVars>>
    \/ EvDeliver /\ UNCHANGED <<libVars, apiVars>>
    \/ EvRead /\ UNCHANGED <<libVars, apiVars>>
    \/ EvWrite /\ UNCHANGED <<libVars, apiVars>>
    \/ EvWrap /\ UNCHANGED <<libVars, apiVars>>

PlayerSpec == PlayerInit /\ [][PlayerNext]_vars

(***************************************************************************)
(* set_volume and get_status, called by the controller between its other   *)
(* commands while the event thread runs.  The monitor thread writes only   *)
(* its own locals and the callback's argument, none of which these two     *)
(* read, so it is left out of this specification.                          *)
(***************************************************************************)
\* The constructor's set_volume(PLAYER_VOLUME) has run, config.py:45.
ApiInit ==
    /\ LibQuiet
    /\ PlayerStart
    /\ volume \in {Clamp(v) : v \in VolumeInputs \cup {PLAYER_VOLUME}}
    /\ status = NoResult

\* player.py:184-189.
SetVolume(v) ==
    /\ ctl.pc = "idle"
    /\ volume' = Clamp(v)
    /\ ctl' = [Returned("set_volume", TRUE) EXCEPT !.arg = v]
    /\ resumeIdx' = {}
    /\ UNCHANGED <<state, current_album, current_track_index, current_playlist,
                   monitor_running, status_callback, vlc, pending, mon, ev,
                   emitted, status>>

\* get_status that asks the backend for the position in every state.
PositionAlwaysQueried(s, p) == [position |-> p, queried |-> TRUE]

\* player.py:205.
PositionFor(s, p) ==
    IF s = "PLAYING" THEN [position |-> p, queried |-> TRUE]
    ELSE [position |-> 0, queried |-> FALSE]

\* player.py:197-203: the status is begun and the index is tested.
GetStatusBegin ==
    /\ ctl.pc = "idle"
    /\ LET begun == [NoResult EXCEPT !.kind = "status", !.state = state,
                                     !.album = current_album,
                                     !.volume = volume]
       IN  IF /\ state # "STOPPED"
              /\ 0 <= current_track_index
              /\ current_track_index < Len(current_playlist)
              THEN /\ status' = [begun EXCEPT !.kind = "building"]
                   /\ ctl' = [IdleCtl EXCEPT !.pc = "status_track",
                                             !.op = "get_status"]
              ELSE /\ status' = begun
                   /\ ctl' = Returned("get_status", TRUE)
    /\ resumeIdx' = {}
    /\ UNCHANGED <<state, current_album, current_track_index, current_playlist,
                   monitor_running, status_callback, vlc, pending, mon, ev,
                   emitted, volume>>

\* player.py:204-207: the subscript loads current_track_index again and
\* raises IndexError when the event thread has moved it past the end.
GetStatusTrack ==
    /\ ctl.pc = "status_track"
    /\ IF current_track_index < Len(current_playlist)
          THEN /\ \E p \in Positions :
                     status' = [status EXCEPT
                        !.has_track = TRUE,
                        !.track = current_playlist[current_track_index + 1],
                        !.position = PositionFor(state, p).position,
                        !.queried = PositionFor(state, p).queried]
               /\ ctl' = [ctl EXCEPT !.pc = "status_index"]
          ELSE /\ status' = [status EXCEPT !.kind = "IndexError"]
               /\ ctl' = Returned("get_status", FALSE)
    /\ UNCHANGED <<state, current_album, current_track_index, current_playlist,
                   monitor_running, status_callback, vlc, pending, mon, ev,
                   emitted, resumeIdx, volume>>

\* player.py:208-210.
GetStatusIndex ==
    /\ ctl.pc = "status_index"
    /\ status' = [status EXCEPT !.kind = "status",
                                !.track_index = current_track_index + 1]
    /\ ctl' = Returned("get_status", TRUE)
    /\ UNCHANGED <<state, current_album, current_track_index, current_playlist,
                   monitor_running, status_callback, vlc, pending, mon, ev,
                   emitted, resumeIdx, volume>>

\* The controller takes the result; the status is dropped.
ApiReturn == CtlReturn /\ status' = NoResult /\ UNCHANGED volume

ApiNext ==
    \/ (\E v \in VolumeInputs : SetVolume(v)) /\ UNCHANGED libVars
    \/ GetStatusBegin /\ UNCHANGED libVars
    \/ GetStatusTrack /\ UNCHANGED libVars
    \/ GetStatusIndex /\ UNCHANGED libVars
    \/ ApiReturn /\ UNCHANGED libVars
    \/ SetStatusCallback /\ UNCHANGED <<libVars, apiVars>>
    \/ Play /\ UNCHANGED <<libVars, apiVars>>
    \/ Pause /\ UNCHANGED <<libVars, apiVars>>
    \/ Stop /\ UNCHANGED <<libVars, apiVars>>
    \/ NextBegin /\ UNCHANGED <<libVars, apiVars>>
    \/ NextWrite /\ UNCHANGED <<libVars, apiVars>>
    \/ PreviousBegin /\ UNCHANGED <<libVars, apiVars>>
    \/ PreviousWrite /\ UNCHANGED <<libVars, apiVars>>
    \/ (\E a \in Albums : LoadStop(a)) /\ UNCHANGED <<libVars, apiVars>>
    \/ LoadAlbum /\ UNCHANGED <<libVars, apiVars>>
    \/ LoadList /\ UNCHANGED <<libVars, apiVars>>
    \/ LoadIndex /\ UNCHANGED <<libVars, apiVars>>
    \/ TrackEnds /\ UNCHANGED <<libVars, apiVars>>
    \/ EvDeliver /\ UNCHANGED <<libVars, apiVars>>
    \/ EvRead /\ UNCHANGED <<libVars, apiVars>>
    \/ EvWrite /\ UNCHANGED <<libVars, apiVars>>
    \/ EvWrap /\ UNCHANGED <<libVars, apiVars>>

ApiSpec == ApiInit /\ [][ApiNext]_vars

(***************************************************************************)
(* The monitor under fair scheduling: albums are loaded and played, tracks *)
(* end, and the monitor and event threads always get to take their next    *)
(* step.  The controller's commands are the environment's and get no       *)
(* fairness.                                                               *)
(***************************************************************************)
\* One step of the monitor thread, player.py:68-95.
MonStep ==
    /\ \/ MonLoop
       \/ MonPosition
       \/ MonTrack
       \/ MonInfoTest
       \/ MonInfoRead
       \/ MonStatus
       \/ MonEmit
       \/ MonCallbackReturn
    /\ UNCHANGED <<libVars, apiVars>>

\* One step of the event thread inside _on_media_end, player.py:97-103.
EvStep ==
    /\ \/ EvDeliver
       \/ EvRead
       \/ EvWrite
       \/ EvWrap
    /\ UNCHANGED <<libVars, apiVars>>

MonitorNext ==
    \/ SetStatusCallback /\ UNCHANGED <<libVars, apiVars>>
    \/ (\E a \in Albums : LoadStop(a)) /\ UNCHANGED <<libVars, apiVars>>
    \/ LoadAlbum /\ UNCHANGED <<libVars, apiVars>>
    \/ LoadList /\ UNCHANGED <<libVars, apiVars>>
    \/ LoadIndex /\ UNCHANGED <<libVars, apiVars>>
    \/ Play /\ UNCHANGED <<libVars, apiVars>>
    \/ CtlReturn /\ UNCHANGED <<libVars, apiVars>>
    \/ TrackEnds /\ UNCHANGED <<libVars, apiVars>>
    \/ MonStep
    \/ EvStep

MonitorSpec ==
    /\ PlayerInit
    /\ [][MonitorNext]_vars
    /\ WF_vars(MonStep)
    /\ WF_vars(EvStep)

(***************************************************************************)
(* The monitor worker and the requests to start and to stop it: albums are *)
(* loaded, played, paused and stopped, and _stop_monitor is called on the  *)
(* player.  No track ends, so the index stays 0.                           *)
(***************************************************************************)
\* player.py:62-65: monitor_running is cleared; the join follows when there
\* is a thread object.
StopMonitor ==
    /\ ctl.pc = "idle"
    /\ monitor_running' = FALSE
    /\ ctl' = IF mon.pc = "none" THEN Returned("_stop_monitor", TRUE)
              ELSE [IdleCtl EXCEPT !.pc = "join", !.op = "_stop_monitor"]
    /\ resumeIdx' = {}
    /\ UNCHANGED <<state, current_album, current_track_index, current_playlist,
                   status_callback, vlc, pending, mon, ev, emitted>>

\* player.py:66, join(timeout=1.0) returns: the thread has ended, or the
\* second has passed while the thread sleeps in line 95 or is inside a tick.
StopMonitorJoin ==
    /\ ctl.pc = "join"
    /\ ctl' = [Returned("_stop_monitor", TRUE) EXCEPT
                  !.arg = IF MonitorAlive THEN 1 ELSE 0]
    /\ UNCHANGED <<state, current_album, current_track_index, current_playlist,
                   monitor_running, status_callback, vlc, pending, mon, ev,
                   emitted, resumeIdx>>

WorkerNext ==
    \/ SetStatusCallback /\ UNCHANGED <<libVars, apiVars>>
    \/ (\E a \in Albums : LoadStop(a)) /\ UNCHANGED <<libVars, apiVars>>
    \/ LoadAlbum /\ UNCHANGED <<libVars, apiVars>>
    \/ LoadList /\ UNCHANGED <<libVars, apiVars>>
    \/ LoadIndex /\ UNCHANGED <<libVars, apiVars>>
    \/ Play /\ UNCHANGED <<libVars, apiVars>>
    \/ Pause /\ UNCHANGED <<libVars, apiVars>>
    \/ Stop /\ UNCHANGED <<libVars, apiVars>>
    \/ StopMonitor /\ UNCHANGED <<libVars, apiVars>>
    \/ StopMonitorJoin /\ UNCHANGED <<libVars, apiVars>>
    \/ CtlReturn /\ UNCHANGED <<libVars, apiVars>>
    \/ MonStep

WorkerSpec == PlayerInit /\ [][WorkerNext]_vars

(***************************************************************************)
(* Claims about the library.                                               *)
(***************************************************************************)
Threads == {"loop", "exec"}

\* C2: when a scan has built a Library with tracks, albums and artists and
\* save_cache has written it, loading the cache file gives back the same
\* tracks, albums, artists and indexed_time.
C2_CacheRoundTrip ==
    [][\A c \in Threads :
          (/\ ix[c].pc = "commit"
           /\ ix'[c].pc = "ret"
           /\ ix'[c].opened
           /\ library' # <<>>
           /\ albums' # <<>>
           /\ artists' # <<>>)
          => /\ ~Construct(cacheFile').raised
             /\ Construct(cacheFile').snap
                   = Snap(library', albums', artists', indexed_time')]_vars

C4_IdStableAcrossRuns ==
    \A p \in Paths : Cardinality(idHist[p]) <= 1

\* C5: MusicLibrary() on any cache file completes without raising; the
\* Library is empty when the file is absent or is no cache of the
\* documented shape.
C5_LoadNeverRaises ==
    /\ alive
    /\ (lpc = "idle" /\ ix["loop"].pc = "idle" /\ ix["exec"].pc = "idle"
          /\ ~(cacheFile.kind = "json" /\ cacheFile.shaped)
          /\ indexed_time = 0)
       => library = <<>> /\ albums = <<>> /\ artists = <<>>

\* C6: get_random_album never raises: it returns an album of the current
\* album set or None.
C6_RandomNeverRaises ==
    /\ lret.kind \notin {"IndexError", "KeyError"}
    /\ lret.kind = "album" => DictHas(albums, lret.key)

\* C16: a call of index_library to which mount_server reports failure is
\* over in its first step with result failure, whether forced or not and
\* whether the Library is fresh or not; tracks, albums, artists,
\* indexed_time and the cache file stay as they were.
C16_MountFailureFailsFast ==
    [][\A c \in Threads :
          (ix[c].pc = "idle" /\ ix'[c].pc # "idle" /\ ~ix'[c].mounted)
          => /\ ix'[c].pc = "ret"
             /\ ~ix'[c].result
             /\ library' = library
             /\ albums' = albums
             /\ artists' = artists
             /\ indexed_time' = indexed_time
             /\ cacheFile' = cacheFile]_vars

\* A forced rescan of a fresh Library with albums has failed on the mount.
C16_Witness ==
    /\ ix["exec"].pc = "ret"
    /\ ix["exec"].force
    /\ ~ix["exec"].mounted
    /\ ~ix["exec"].result
    /\ ix["exec"].fresh
    /\ albums # <<>>
    /\ library # <<>>

\* C17: a scan returns success, and the tracks it leaves hold the track of
\* every file under the mount root that is supported, is no dot file and on
\* which extraction succeeds, whatever extraction did on the other files.
C17_ExtractionFailureSkipped ==
    [][\A c \in Threads :
          (ix[c].pc = "commit" /\ ix'[c].pc = "ret")
          => /\ ix'[c].result
             /\ \A n \in tree :
                   (/\ FileExtract(n) = "ok"
                    /\ FileSupported(n)
                    /\ ~FileIsMacMeta(n)
                    /\ ~FileIsDot(n))
                   => \E i \in 1 .. Len(library') :
                         /\ library'[i].v.path = n
                         /\ library'[i].v = TrackInfo(n)]_vars

\* A scan has returned success over a file on which extraction raises and
\* two files after it in the walk, both of which it holds.
C17_Witness ==
    \E c \in Threads :
        /\ ix[c].pc = "ret"
        /\ ix[c].result
        /\ ix[c].opened
        /\ {2, 3, 4} \subseteq tree
        /\ FileExtract(2) = "raise"
        /\ Len(library) = 3
        /\ \E i \in 1 .. Len(library) : library[i].v.path = 4

\* C18: the list search_album(query) returns holds exactly the albums that
\* match the query; in it every album whose name equals the query without
\* regard to case comes before every album whose name only contains it,
\* which comes before every album matched through its artist or key alone,
\* and albums of the same rank come in the order of the albums dict.
C18_SearchRanking ==
    (lret.op = "search" /\ lret.kind = "results" /\ albums # <<>>)
    => LET q == Lower(lret.query)
           r == lret.key
           Class(x) ==
               IF Lower(x.name) = q THEN "equal"
               ELSE IF Contains(Chars(q), Chars(Lower(x.name))) THEN "contains"
               ELSE "other"
           Before(x, y) ==
               \/ Class(x) = "equal" /\ Class(y) # "equal"
               \/ Class(x) = "contains" /\ Class(y) = "other"
               \/ /\ Class(x) = Class(y)
                  /\ DictIndex(albums, x.key) < DictIndex(albums, y.key)
       IN  /\ \A i, j \in 1 .. Len(r) : i < j => Before(r[i], r[j])
           /\ {r[i].key : i \in 1 .. Len(r)}
                 = {albums[k].k : k \in {m \in 1 .. Len(albums) :
                                            SearchMatch(q, albums[m])}}
           /\ \A i \in 1 .. Len(r) :
                 /\ r[i].name = DictGet(albums, r[i].key).name
                 /\ r[i].artist = DictGet(albums, r[i].key).artist

\* A search for "AB" has returned three albums: the one named "AB", found
\* last by the scan, then one whose name contains "ab", then one matched
\* through its artist alone.
C18_Witness ==
    /\ lret.op = "search"
    /\ lret.kind = "results"
    /\ lret.query = "AB"
    /\ Len(lret.key) = 3
    /\ lret.key[1].name = "AB"
    /\ DictIndex(albums, lret.key[1].key) = 3
    /\ lret.key[2].name = "abc"
    /\ lret.key[3].name = "x"
    /\ lret.key[3].artist = "ab"

\* C19: get_album_tracks(key) returns the tracks of the album in ascending
\* track_number, tracks of the same number in the order in which the scan
\* found them, each track of the album once; for a key that is no album it
\* returns the empty list.
C19_AlbumTracksSorted ==
    (lret.op = "album_tracks")
    => LET r == lret.key
           key == lret.query
           Found(t) == CHOOSE k \in 1 .. Len(library) : library[k].v = t
           mine == {k \in 1 .. Len(library) : AlbumKey(library[k].v) = key}
       IN  IF ~DictHas(albums, key) THEN r = <<>>
           ELSE /\ \A i, j \in 1 .. Len(r) :
                      i < j => \/ r[i].track_number < r[j].track_number
                               \/ /\ r[i].track_number = r[j].track_number
                                  /\ Found(r[i]) < Found(r[j])
                /\ {r[i] : i \in 1 .. Len(r)} = {library[k].v : k \in mine}
                /\ Len(r) = Cardinality(mine)

\* get_album_tracks has returned three tracks of one album: the two with
\* number 1, found second and third, before the one with number 2, found
\* first.
C19_Witness ==
    /\ lret.op = "album_tracks"
    /\ Len(lret.key) = 3
    /\ lret.key[1].path = 12
    /\ lret.key[2].path = 13
    /\ lret.key[3].path = 11
    /\ lret.key[1].track_number = 1
    /\ lret.key[2].track_number = 1
    /\ lret.key[3].track_number = 2

\* C23: persisting the Library is atomic: after every step of save_cache
\* the cache file is what it was before the step or is the complete
\* snapshot of the Library that was being saved.
C23_SaveAtomic ==
    [][\A c \in Threads :
          (ix[c].pc = "commit" /\ ix'[c].pc = "ret")
          => \/ cacheFile' = cacheFile
             \/ /\ cacheFile'.kind = "json"
                /\ cacheFile'.t = "object"
                /\ cacheFile'.shaped
                /\ cacheFile'.snap
                      = Snap(library', albums', artists', indexed_time')]_vars

\* C24: the indexer builds the new Library aside and swaps it in whole:
\* while a run of index_library is between its reset and its return, the
\* live tracks, albums and artists, which are what a reader on another
\* thread is served, are the complete Library the run found when it was
\* called.
C24_PreviousLibraryServed ==
    \A c \in Threads :
       ix[c].pc \in {"walk", "commit"}
       => /\ library = ix[c].pre.tracks
          /\ albums = ix[c].pre.albums
          /\ artists = ix[c].pre.artists

\* C25: a call of index_library whose aggregation failed reports failure as
\* its result, and when it is over tracks, albums, artists and indexed_time
\* are what they were when the call was made.
C25_AggregationFailureRollsBack ==
    [][\A c \in Threads :
          (ix[c].pc = "raised" /\ ix'[c].pc = "idle")
          => /\ lret'.kind = "False"
             /\ Snap(library', albums', artists', indexed_time') = ix[c].pre]_vars

\* C26: the fallback works on the components of the path relative to the
\* mount root: a track's artist or album that the tags leave empty is the
\* third-from-last or the second-from-last component when the relative path
\* has at least 3 components, and stays empty when it has fewer, as in
\* Album/Track.flac.
C26_PathFallbackRelative ==
    \A i \in 1 .. Len(library) :
       LET t == library[i].v
           rel == Tail(FileParts(t.path))
           tags == TaggedInfo(t.path)
       IN  /\ t.artist = IF tags.artist = "" /\ Len(rel) >= 3
                            THEN rel[Len(rel) - 2] ELSE tags.artist
           /\ t.album = IF tags.album = "" /\ Len(rel) >= 3
                           THEN rel[Len(rel) - 1] ELSE tags.album

\* C27: when a call of index_library returns success, every track id listed
\* by an album or an artist is a key of tracks, every track of tracks is
\* listed once, in the track list of exactly one album, and each album's
\* track_count is the length of its track list.
C27_LibraryConsistent ==
    [][\A c \in Threads :
          (ix[c].pc # "ret" /\ ix'[c].pc = "ret" /\ ix'[c].result)
          => /\ \A i \in 1 .. Len(albums') :
                   /\ \A j \in 1 .. Len(albums'[i].v.tracks) :
                         DictHas(library', albums'[i].v.tracks[j])
                   /\ albums'[i].v.track_count = Len(albums'[i].v.tracks)
             /\ \A i \in 1 .. Len(artists') :
                   \A j \in 1 .. Len(artists'[i].v.tracks) :
                      DictHas(library', artists'[i].v.tracks[j])
             /\ \A t \in 1 .. Len(library') :
                   Cardinality({p \in (1 .. Len(albums')) \X (1 .. NumFiles) :
                                   /\ p[2] <= Len(albums'[p[1]].v.tracks)
                                   /\ albums'[p[1]].v.tracks[p[2]]
                                         = library'[t].k}) = 1]_vars

\* C29: indexing runs off the control loop: while a run of index_library is
\* in progress, whoever started it, the event loop is not held by a library
\* call and can take a player command.
C29_LoopFreeWhileIndexing ==
    \A c \in Threads : ix[c].pc \in {"walk", "commit"} => lpc = "idle"

(***************************************************************************)
(* Claims about the player.                                                *)
(***************************************************************************)
\* C1: once stop() has set the state to STOPPED and returned, and until a
\* later successful play(), the monitor does not call the status callback,
\* also when its tick had passed the state check before the stop.
C1_NoEmitAfterStop ==
    [][(mon.pc = "emit" /\ mon'.pc = "in_callback")
          => ~(state = "STOPPED" /\ ~(ctl.pc = "ret" /\ ctl.op = "stop"))]_vars

\* C7: pause() called while PLAYING returns success and leaves the state
\* PAUSED; called in any other state it returns failure and leaves state,
\* current_track_index and the playlist as they were.
C7_PauseOnlyFromPlaying ==
    [][(ctl.pc = "idle" /\ ctl'.pc = "ret" /\ ctl'.op = "pause")
          => IF state = "PLAYING"
                THEN ctl'.ret /\ state' = "PAUSED"
                ELSE /\ ~ctl'.ret
                     /\ state' = state
                     /\ current_track_index' = current_track_index
                     /\ current_playlist' = current_playlist]_vars

\* A pause() has just failed in state PAUSED on a track other than the first.
C7_Witness ==
    /\ ctl.pc = "ret"
    /\ ctl.op = "pause"
    /\ ~ctl.ret
    /\ state = "PAUSED"
    /\ current_track_index > 0

\* C8: a play() that directly follows a successful pause() made at index i
\* leaves the state PLAYING and current_track_index equal to i, whatever the
\* end-of-track handler did in between.
C8_ResumeKeepsIndex ==
    [][(/\ ctl.pc = "idle"
        /\ ctl'.pc = "ret"
        /\ ctl'.op = "play"
        /\ resumeIdx # {})
          => /\ state' = "PLAYING"
             /\ current_track_index' \in resumeIdx]_vars

\* C9: play() with an empty playlist returns failure, leaves state,
\* current_track_index and the playlist as they were, does not start the
\* backend and starts no monitor thread.
C9_PlayEmptyIsNoOp ==
    [][(/\ ctl.pc = "idle"
        /\ ctl'.pc = "ret"
        /\ ctl'.op = "play"
        /\ current_playlist = <<>>)
          => /\ ~ctl'.ret
             /\ state' = state
             /\ current_track_index' = current_track_index
             /\ current_playlist' = current_playlist
             /\ vlc' = vlc
             /\ mon' = mon
             /\ monitor_running' = monitor_running]_vars

\* A play() has just failed on the empty playlist, with no monitor thread.
C9_Witness ==
    /\ ctl.pc = "ret"
    /\ ctl.op = "play"
    /\ ~ctl.ret
    /\ current_playlist = <<>>
    /\ state = "STOPPED"
    /\ mon.pc = "none"
    /\ ~monitor_running

\* C10: with n > 1 tracks and the index i that the call reads in 0..n-1,
\* next_track stores i+1, or 0 from the last track, previous_track stores
\* i-1, or n-1 from the first, and neither changes the state; with n <= 1
\* both return failure and change neither index, state nor playlist.
C10_SkipWrapsModLen ==
    [][LET n == Len(current_playlist)
           i == ctl.tmp
       IN  /\ (ctl.pc = "next_track_w" /\ ctl'.pc = "ret" /\ i \in 0 .. n - 1)
                 => /\ n > 1
                    /\ current_track_index' = IF i = n - 1 THEN 0 ELSE i + 1
                    /\ state' = state
                    /\ ctl'.ret
           /\ (ctl.pc = "previous_track_w" /\ ctl'.pc = "ret" /\ i \in 0 .. n - 1)
                 => /\ n > 1
                    /\ current_track_index' = IF i = 0 THEN n - 1 ELSE i - 1
                    /\ state' = state
                    /\ ctl'.ret
           /\ (/\ ctl.pc = "idle"
               /\ ctl'.op \in {"next_track", "previous_track"}
               /\ n > 1)
                 => /\ ctl'.pc \in {"next_track_w", "previous_track_w"}
                    /\ ctl'.tmp = current_track_index
                    /\ state' = state
           /\ (/\ ctl.pc = "idle"
               /\ ctl'.op \in {"next_track", "previous_track"}
               /\ n <= 1)
                 => /\ ctl'.pc = "ret"
                    /\ ~ctl'.ret
                    /\ state' = state
                    /\ current_track_index' = current_track_index
                    /\ current_playlist' = current_playlist]_vars

\* previous_track has just wrapped from the first track of three to the last.
C10_Witness ==
    /\ ctl.pc = "ret"
    /\ ctl.op = "previous_track"
    /\ ctl.ret
    /\ ctl.tmp = 0
    /\ Len(current_playlist) = 3
    /\ current_track_index = 2
    /\ state = "PLAYING"

\* C11: the end-of-track callback entered while the state is not PLAYING is
\* over at once and leaves current_track_index as it was; entered while
\* PLAYING it stores the index it read plus one and then takes an index one
\* past the last track to 0, an index i in range being left at i (together:
\* the stored index modulo the length); no step of the callback changes the
\* state or the playlist.
C11_EndCallbackAdvances ==
    [][LET n == Len(current_playlist)
       IN  /\ (pending /\ ev.pc = "idle" /\ ~pending')
                 => IF state = "PLAYING"
                       THEN ev'.pc = "read"
                       ELSE ev' = IdleEv
                            /\ current_track_index' = current_track_index
           /\ (ev.pc = "read" /\ ev'.pc = "write")
                 => /\ ev'.tmp = current_track_index
                    /\ current_track_index' = current_track_index
           /\ (ev.pc = "write" /\ ev'.pc = "wrap")
                 => current_track_index' = ev.tmp + 1
           /\ (ev.pc = "wrap" /\ ev'.pc = "idle" /\ n > 0
                  /\ current_track_index \in 0 .. n)
                 => current_track_index' = current_track_index % n
           /\ (ev' # ev)
                 => state' = state /\ current_playlist' = current_playlist]_vars

\* The callback, entered while PLAYING on the last of three tracks, has
\* stored the index one past the end and is about to wrap.
C11_Witness ==
    /\ ev.pc = "wrap"
    /\ state = "PLAYING"
    /\ Len(current_playlist) = 3
    /\ current_track_index = 3

C13_VolumeClamped ==
    /\ volume \in 0 .. 100
    /\ [][(ctl.pc = "idle" /\ ctl'.op = "set_volume")
             => LET v == ctl'.arg
                IN  /\ volume' = IF v < 0 THEN 0 ELSE IF v > 100 THEN 100 ELSE v
                    /\ volume' \in 0 .. 100
                    /\ ctl'.ret
                    /\ state' = state
                    /\ current_track_index' = current_track_index
                    /\ current_playlist' = current_playlist
                    /\ current_album' = current_album]_vars

\* set_volume(150) has just returned during playback with the backend at 100.
C13_Witness ==
    /\ ctl.pc = "ret"
    /\ ctl.op = "set_volume"
    /\ ctl.arg = 150
    /\ volume = 100
    /\ state = "PLAYING"

\* C14: no step of get_status changes state, current_track_index, playlist,
\* current_album, monitor_running or the monitor thread; a returned status
\* carries a position asked of the backend only when the state is PLAYING,
\* carries track and position 0 without asking when PAUSED with the index in
\* range, and carries neither track nor position when STOPPED.
C14_GetStatusPureRead ==
    [][/\ (ctl'.op = "get_status" /\ ctl' # ctl)
             => /\ state' = state
                /\ current_track_index' = current_track_index
                /\ current_playlist' = current_playlist
                /\ current_album' = current_album
                /\ monitor_running' = monitor_running
                /\ mon' = mon
                /\ volume' = volume
       /\ (ctl'.op = "get_status" /\ ctl'.pc = "ret" /\ ctl.pc # "ret"
              /\ status'.kind = "status")
             => /\ status'.state = state
                /\ status'.queried => state = "PLAYING" /\ status'.has_track
                /\ state = "PLAYING" /\ status'.has_track => status'.queried
                /\ state = "PAUSED" /\ status'.has_track
                      => status'.position = 0 /\ ~status'.queried
                /\ state = "STOPPED" => ~status'.has_track /\ ~status'.queried
       /\ (ctl.pc = "idle" /\ ctl'.op = "get_status" /\ state = "PAUSED"
              /\ current_track_index \in 0 .. Len(current_playlist) - 1)
             => ctl'.pc = "status_track"]_vars

\* get_status has returned the second track at position 0, without asking
\* the backend, while PAUSED.
C14_Witness ==
    /\ ctl.pc = "ret"
    /\ ctl.op = "get_status"
    /\ status.kind = "status"
    /\ status.state = "PAUSED"
    /\ status.has_track
    /\ status.track = 12
    /\ status.position = 0
    /\ ~status.queried

(***************************************************************************)
(* Claims about the monitor under fair scheduling.                         *)
(***************************************************************************)
\* C15: whenever a callback is registered, the player is PLAYING at index j
\* of its playlist and the monitor has not yet taken j as the track of its
\* last report, then eventually the callback is called with a status whose
\* track is the playlist's track j, unless the player stops PLAYING at j
\* first.
C15_MonitorEventuallyEmits ==
    \A a \in Albums : \A j \in 0 .. AlbumLen(a) - 1 :
        (/\ status_callback
         /\ state = "PLAYING"
         /\ current_playlist = AlbumTracks(a)
         /\ current_track_index = j
         /\ mon.last_track_index # j)
        ~> (\/ state # "PLAYING"
            \/ current_playlist # AlbumTracks(a)
            \/ current_track_index # j
            \/ (mon.pc = "in_callback" /\ emitted.track = AlbumTracks(a)[j + 1]))

(***************************************************************************)
(* Claims about the exclusion of the player's operations.                  *)
(***************************************************************************)

\* The controller's command is between its first read and its last write of
\* state, current_playlist or current_track_index: next_track and
\* previous_track after the tests of line 166 or 176 and before the store of
\* line 171 or 181, load_playlist after stop() and before the store of line
\* 124.
CtlInside ==
    ctl.pc \in {"next_track_w", "previous_track_w", "load_album", "load_list",
                "load_index"}

\* _on_media_end is between its test of state and its last store of
\* current_track_index.
EvInside == ev.pc \in {"read", "write", "wrap"}

\* C20: the operations that change the player are mutually exclusive: a
\* command of the controller and the end-of-track callback are never both
\* between their first read and their last write of state, current_playlist
\* or current_track_index.
C20_MutuallyExclusive == ~(CtlInside /\ EvInside)

(***************************************************************************)
(* Claims about what observers see of the player.                          *)
(***************************************************************************)

\* C21: the replacement of the playlist is atomic to the monitor: a status
\* it hands to the callback with a track names the album that track was
\* loaded with.
C21_SnapshotOfOneLoad ==
    (mon.pc \in {"emit", "in_callback"} /\ emitted.track # 0)
    => \E a \in Albums :
          /\ emitted.album = a
          /\ \E i \in 1 .. AlbumLen(a) : AlbumTracks(a)[i] = emitted.track

\* C22: the monitor is told to stop when playback is stopped: when stop()
\* has returned, monitor_running is false.
C22_StopStopsMonitor ==
    (ctl.pc = "ret" /\ ctl.op = "stop") => ~monitor_running

\* C28: with an observer registered, a tick of the monitor goes on to emit
\* exactly when state is PLAYING and the index differs from the last one
\* reported or the position differs from the last one reported by more than
\* 0.05; and every status handed to the observer carries state PLAYING.
C28_TickEmitsOnChangeWhilePlaying ==
    [][/\ (mon.pc = "track" /\ mon'.pc # "track" /\ status_callback)
          => ((mon'.pc = "info")
                <=> /\ state = "PLAYING"
                    /\ \/ current_track_index # mon.last_track_index
                       \/ Abs(mon.position - mon.last_position) > 5)
       /\ (mon.pc = "emit" /\ mon'.pc = "in_callback")
          => emitted.state = "PLAYING"]_vars

\* C30: with a playlist loaded, every value of current_track_index that the
\* monitor reads on a tick, and every value that next_track or
\* previous_track reads, is an index of the playlist.
C30_ObservedIndexInRange ==
    [][/\ (mon.pc = "track" /\ mon'.pc # "track" /\ current_playlist # <<>>)
          => mon'.current_track \in 0 .. Len(current_playlist) - 1
       /\ (ctl.pc = "idle" /\ ctl'.pc \in {"next_track_w", "previous_track_w"})
          => ctl'.tmp \in 0 .. Len(current_playlist) - 1]_vars

(***************************************************************************)
(* Claims about the monitor worker.                                        *)
(***************************************************************************)
\* C31: when play() has returned success, and until the monitor is asked to
\* stop, a monitor worker is alive and monitor_running is true, so that the
\* worker goes on polling; also when the play() follows a _stop_monitor()
\* whose join timed out.
C31_PlayLeavesWorkerRunning ==
    (ctl.pc = "ret" /\ ctl.op = "play" /\ ctl.ret)
    => (MonitorAlive /\ monitor_running)

====
